---- MODULE Spec2Model ----
(***************************************************************************)
(* Model of the article pipeline of the digital-economy digest:           *)
(*   services/geminiService.ts (translateKeywords, parseArticleResponse,  *)
(*   fetchDigitalEconomyArticles) and App.tsx (handleFetchArticles and    *)
(*   the views it renders).                                                *)
(*                                                                         *)
(* A string is a sequence of tokens.  A token is one character or one     *)
(* atomic run of characters of the text:                                   *)
(*   "TITLE", "SUMMARY", "SOURCE"  the three two-character label words     *)
(*                                 (biao-ti, zhai-yao, lai-yuan)           *)
(*   "FW"                          the full-width colon                    *)
(*   ":"                           the half-width colon                    *)
(*   " ", "\n"                     white space                             *)
(*   "http://", "https://"         the scheme prefix of a URL              *)
(*   ")"                           a character that ends a URL             *)
(*   ".", ","                      period and comma                        *)
(*   anything else                 an ordinary character                   *)
(***************************************************************************)
EXTENDS Integers, Sequences, FiniteSets, TLC

VARIABLES
    \* App.tsx state (useState hooks, lines 10-17)
    articles, groundingSources, isLoading, error, hasSearched, filters,
    \* the invocations of fetchDigitalEconomyArticles started so far
    inv,
    \* parser harness: the blocks the input text is made of, the text, the result
    blocks, text, parsed, parseDone,
    \* deduplication harness: the grounding chunks of a response, the result
    groundingChunks, uniqueSources, dedupDone

vars == <<articles, groundingSources, isLoading, error, hasSearched, filters, inv,
          blocks, text, parsed, parseDone, groundingChunks, uniqueSources, dedupDone>>

appVars == <<articles, groundingSources, isLoading, error, hasSearched, filters, inv>>
parserVars == <<blocks, text, parsed, parseDone>>
dedupVars == <<groundingChunks, uniqueSources, dedupDone>>

----------------------------------------------------------------------------
(* Bounds *)

MaxBlocks == 2
MaxChunks == 3
MaxInvocations == 2

----------------------------------------------------------------------------
(* Strings *)

Whitespace == {" ", "\n"}
Colons == {"FW", ":"}
Schemes == {"http://", "https://"}
\* the characters the URL pattern's class [^\s"'\)<>] excludes
UrlStop == Whitespace \cup {"\"", "'", ")", "<", ">"}

RECURSIVE TrimStart(_)
TrimStart(s) ==
    IF s # <<>> /\ Head(s) \in Whitespace THEN TrimStart(Tail(s)) ELSE s

RECURSIVE TrimEnd(_)
TrimEnd(s) ==
    IF s # <<>> /\ s[Len(s)] \in Whitespace
    THEN TrimEnd(SubSeq(s, 1, Len(s) - 1))
    ELSE s

\* String.prototype.trim
Trim(s) == TrimEnd(TrimStart(s))

----------------------------------------------------------------------------
(* parseArticleResponse *)

\* The position of the first "<word><colon>" at or after `from`, 0 when none.
FirstLabel(s, word, from) ==
    LET hits == {k \in from..(Len(s) - 1) : s[k] = word /\ s[k + 1] \in Colons}
    IN  IF hits = {} THEN 0 ELSE CHOOSE k \in hits : \A h \in hits : k <= h

NoMatch == [found |-> FALSE]

\* MatchAt with a greedy third group: the source runs to the end of the input.
MatchAt_GreedySource(s, i) ==
    IF ~(i + 1 <= Len(s) /\ s[i] = "TITLE" /\ s[i + 1] \in Colons) THEN [found |-> FALSE]
    ELSE LET sm == FirstLabel(s, "SUMMARY", i + 2) IN
         IF sm = 0 THEN [found |-> FALSE]
         ELSE LET so == FirstLabel(s, "SOURCE", sm + 2) IN
              IF so = 0 THEN [found |-> FALSE]
              ELSE [found |-> TRUE,
                    g1 |-> SubSeq(s, i + 2, sm - 1),
                    g2 |-> SubSeq(s, sm + 2, so - 1),
                    g3 |-> SubSeq(s, so + 2, Len(s)),
                    lastIndex |-> Len(s) + 1]

\* The regular expression of line 51 tried at start position i: the three
\* groups are lazy, so each ends at the first label that lets the rest match;
\* the third ends at the next title label or at the end of the input.
MatchAt(s, i) ==
    IF ~(i + 1 <= Len(s) /\ s[i] = "TITLE" /\ s[i + 1] \in Colons) THEN NoMatch
    ELSE LET sm == FirstLabel(s, "SUMMARY", i + 2) IN
         IF sm = 0 THEN NoMatch
         ELSE LET so == FirstLabel(s, "SOURCE", sm + 2) IN
              IF so = 0 THEN NoMatch
              ELSE LET nt  == FirstLabel(s, "TITLE", so + 2)
                       end == IF nt = 0 THEN Len(s) + 1 ELSE nt
                   IN  [found |-> TRUE,
                        g1 |-> SubSeq(s, i + 2, sm - 1),
                        g2 |-> SubSeq(s, sm + 2, so - 1),
                        g3 |-> SubSeq(s, so + 2, end - 1),
                        lastIndex |-> end]

\* regex.exec(text) with the g flag: the leftmost match at or after lastIndex.
RegexExec(s, lastIndex) ==
    LET starts == {i \in lastIndex..Len(s) : MatchAt(s, i).found}
    IN  IF starts = {} THEN NoMatch
        ELSE MatchAt(s, CHOOSE i \in starts : \A j \in starts : i <= j)

\* The length of the longest run of URL characters of s starting at k.
RECURSIVE UrlRun(_, _)
UrlRun(s, k) ==
    IF k <= Len(s) /\ s[k] \notin UrlStop THEN 1 + UrlRun(s, k + 1) ELSE 0

\* source.match(/https?:\/\/[^\s"'\)<>]+/): the first match, <<>> when none
\* (a match is never empty).
UrlMatch(s) ==
    LET hits == {k \in 1..Len(s) : s[k] \in Schemes /\ UrlRun(s, k + 1) >= 1}
    IN  IF hits = {} THEN <<>>
        ELSE LET k == CHOOSE h \in hits : \A g \in hits : h <= g
             IN  SubSeq(s, k, k + UrlRun(s, k + 1))

\* ExtractSource without the URL extraction of lines 61-64.
ExtractSource_NoExtraction(g3) == Trim(g3)

\* Lines 59-64: the source of a match.
ExtractSource(g3) ==
    LET source == Trim(g3)
        urlMatch == UrlMatch(source)
    IN  IF urlMatch # <<>> THEN urlMatch ELSE source

\* Line 66: the test that decides whether a match is emitted.
EmitGuard(title, summary, source) ==
    title # <<>> /\ summary # <<>> /\ source # <<>>

\* Lines 55-68: the loop body, `acc` being the articles so far.
PushMatch(acc, m) ==
    LET title == Trim(m.g1)
        summary == Trim(m.g2)
        source == ExtractSource(m.g3)
    IN  IF EmitGuard(title, summary, source)
        THEN Append(acc, [title |-> title, summary |-> summary, source |-> source])
        ELSE acc

RECURSIVE ParseLoop(_, _, _)
ParseLoop(s, lastIndex, acc) ==
    LET m == RegexExec(s, lastIndex)
    IN  IF ~m.found THEN acc
        ELSE ParseLoop(s, m.lastIndex, PushMatch(acc, m))

parseArticleResponse(s) == ParseLoop(s, 1, <<>>)

----------------------------------------------------------------------------
(* Input texts of the parser: a text is made of up to MaxBlocks blocks *)

TitleChar(i) == "t" \o ToString(i)
SummaryChar(i) == "s" \o ToString(i)
PathChar(i) == "x" \o ToString(i)

ColonStyles == {"FW", ":"}
Misses == {"none", "TITLE", "SUMMARY", "SOURCE"}
Shapes == {"plain", "rich", "blankTitle", "blankSummary"}
SrcShapes == {"url", "wrapped", "text", "blank"}

\* The description of one block of the text: the label it lacks (if any), the
\* colon its labels use, the shape of its title and summary bodies and of its
\* source body.  A block that lacks a label has plain bodies.
BlockDescs ==
    {[miss |-> "none", colon |-> c, shape |-> sh, src |-> sr] :
        c \in ColonStyles, sh \in Shapes, sr \in SrcShapes}
    \cup
    {[miss |-> m, colon |-> c, shape |-> "plain", src |-> "url"] :
        m \in Misses \ {"none"}, c \in ColonStyles}

\* What is left of a body once trimmed.
TitleCore(i, b) ==
    CASE b.shape = "rich" -> <<TitleChar(i), " ", "SUMMARY", TitleChar(i)>>
      [] b.shape = "blankTitle" -> <<>>
      [] OTHER -> <<TitleChar(i)>>

SummaryCore(i, b) ==
    CASE b.shape = "rich" -> <<SummaryChar(i), ":", "\n", "SOURCE", SummaryChar(i)>>
      [] b.shape = "blankSummary" -> <<>>
      [] OTHER -> <<SummaryChar(i)>>

SourceCore(i, b) ==
    CASE b.src = "url" -> <<"https://", PathChar(i)>>
      [] b.src = "wrapped" -> <<"a", ":", " ", "http://", PathChar(i), "?", ")", " ", "a">>
      [] b.src = "text" -> <<"a", " ", "https://">>
      [] OTHER -> <<>>

\* The bodies as they stand in the text: never empty, white space around the core.
TitleBody(i, b) ==
    CASE b.shape = "rich" -> <<" ">> \o TitleCore(i, b) \o <<" ">>
      [] b.shape = "blankTitle" -> <<" ">>
      [] OTHER -> TitleCore(i, b)

SummaryBody(i, b) ==
    CASE b.shape = "rich" -> <<"\n">> \o SummaryCore(i, b)
      [] b.shape = "blankSummary" -> <<" ">>
      [] OTHER -> SummaryCore(i, b)

SourceBody(i, b) ==
    CASE b.src = "blank" -> <<" ">>
      [] b.src = "wrapped" -> <<" ">> \o SourceCore(i, b)
      [] OTHER -> SourceCore(i, b)

Label(word, b) == IF b.miss = word THEN <<>> ELSE <<word, b.colon>>

RenderBlock(i, b) ==
    Label("TITLE", b) \o TitleBody(i, b) \o <<"\n">> \o
    Label("SUMMARY", b) \o SummaryBody(i, b) \o <<"\n">> \o
    Label("SOURCE", b) \o SourceBody(i, b)

\* The blocks in order, one blank line between two of them.
RECURSIVE RenderFrom(_, _)
RenderFrom(bs, i) ==
    IF i > Len(bs) THEN <<>>
    ELSE RenderBlock(i, bs[i]) \o
         (IF i < Len(bs) THEN <<"\n", "\n">> ELSE <<>>) \o RenderFrom(bs, i + 1)

Render(bs) == RenderFrom(bs, 1)

BlockLists == UNION {[1..n -> BlockDescs] : n \in 0..MaxBlocks}

----------------------------------------------------------------------------
(* Initial values of the three groups of variables *)

AppInit ==
    /\ articles = <<>>
    /\ groundingSources = <<>>
    /\ isLoading = FALSE
    /\ error = "null"
    /\ hasSearched = FALSE
    /\ filters = [subTopic |-> <<>>]
    /\ inv = <<>>

ParserIdle ==
    /\ blocks = <<>>
    /\ text = <<>>
    /\ parsed = <<>>
    /\ parseDone = FALSE

DedupIdle ==
    /\ groundingChunks = <<>>
    /\ uniqueSources = <<>>
    /\ dedupDone = FALSE

----------------------------------------------------------------------------
(* The parser applied to every text *)

ParserInit ==
    /\ blocks \in BlockLists
    /\ text = Render(blocks)
    /\ parsed = <<>>
    /\ parseDone = FALSE
    /\ AppInit
    /\ DedupIdle

Parse ==
    /\ ~parseDone
    /\ parsed' = parseArticleResponse(text)
    /\ parseDone' = TRUE
    /\ UNCHANGED <<blocks, text, appVars, dedupVars>>

ParserNext == Parse

ParserSpec == ParserInit /\ [][ParserNext]_vars

----------------------------------------------------------------------------
(* Grounding sources: lines 129-138 of fetchDigitalEconomyArticles *)

Undefined == "undefined"

\* v || ''
OrEmpty(v) == IF v = Undefined THEN "" ELSE v

\* Lines 131-134: chunk.web?.uri || '' and chunk.web?.title || ''.
ChunkToSource(chunk) ==
    IF chunk.hasWeb
    THEN [uri |-> OrEmpty(chunk.uri), title |-> OrEmpty(chunk.title)]
    ELSE [uri |-> "", title |-> ""]

\* Line 135: .filter(source => source.uri)
KeepSource(source) == source.uri # ""

RECURSIVE MapFilter(_)
MapFilter(chunks) ==
    IF chunks = <<>> THEN <<>>
    ELSE LET source == ChunkToSource(Head(chunks))
         IN  (IF KeepSource(source) THEN <<source>> ELSE <<>>) \o MapFilter(Tail(chunks))

\* MapSet that moves a key set again to the end (delete, then insert).
MapSet_MoveToEnd(m, key, value) ==
    Append(SelectSeq(m, LAMBDA e : e.key # key), [key |-> key, value |-> value])

\* Map.prototype.set on a Map held as its entries in insertion order: a key
\* already present keeps its place and takes the new value.
MapSet(m, key, value) ==
    IF \E k \in 1..Len(m) : m[k].key = key
    THEN [k \in 1..Len(m) |->
            IF m[k].key = key THEN [key |-> key, value |-> value] ELSE m[k]]
    ELSE Append(m, [key |-> key, value |-> value])

\* new Map(sources.map(item => [item.uri, item]))
RECURSIVE NewMap(_, _)
NewMap(m, sources) ==
    IF sources = <<>> THEN m
    ELSE NewMap(MapSet(m, Head(sources).uri, Head(sources)), Tail(sources))

\* Array.from(map.values())
MapValues(m) == [k \in 1..Len(m) |-> m[k].value]

\* Lines 130-138.
DedupSources(chunks) == MapValues(NewMap(<<>>, MapFilter(chunks)))

ChunkUris == {Undefined, "", "u1", "u2"}
ChunkTitles == {Undefined, "t1", "t2"}

Chunks ==
    {[hasWeb |-> FALSE, uri |-> Undefined, title |-> Undefined]} \cup
    {[hasWeb |-> TRUE, uri |-> u, title |-> t] : u \in ChunkUris, t \in ChunkTitles}

ChunkLists == UNION {[1..n -> Chunks] : n \in 0..MaxChunks}

DedupInit ==
    /\ groundingChunks \in ChunkLists
    /\ uniqueSources = <<>>
    /\ dedupDone = FALSE
    /\ AppInit
    /\ ParserIdle

Dedup ==
    /\ ~dedupDone
    /\ uniqueSources' = DedupSources(groundingChunks)
    /\ dedupDone' = TRUE
    /\ UNCHANGED <<groundingChunks, appVars, parserVars>>

DedupNext == Dedup

DedupSpec == DedupInit /\ [][DedupNext]_vars

----------------------------------------------------------------------------
(* translateKeywords *)

\* .replace(/\.$/, ''): one trailing period dropped.
DropTrailingPeriod(s) ==
    IF s # <<>> /\ s[Len(s)] = "." THEN SubSeq(s, 1, Len(s) - 1) ELSE s

\* translateKeywords without its try/catch: the error of the call leaves it.
translateKeywords_NoCatch(reply) ==
    IF reply.ok
    THEN [threw |-> FALSE, value |-> DropTrailingPeriod(Trim(reply.text))]
    ELSE [threw |-> TRUE, value |-> <<>>]

\* Lines 16-33, from the reply of the service on: the value the awaited call
\* gives, or threw = TRUE when an error leaves the function.  The catch of
\* line 30 turns every failure into the empty string.
translateKeywords(reply) ==
    IF reply.ok
    THEN [threw |-> FALSE, value |-> DropTrailingPeriod(Trim(reply.text))]
    ELSE [threw |-> FALSE, value |-> <<>>]

----------------------------------------------------------------------------
(* fetchDigitalEconomyArticles *)

FetchFailedMessage == "fetch failed: the API may be unavailable or the request failed"
ServiceErrorMessage == "service error"
NoArticlesMessage == "the model returned no article for the given conditions"

\* HasSubTopic that takes the empty sub-topic for one.
HasSubTopic_Always(subTopic) == TRUE

\* Line 83: if (filters.subTopic)
HasSubTopic(subTopic) == subTopic # <<>>

\* Lines 85-88.
CombinedKeywords(subTopic, translatedKeywords) ==
    IF translatedKeywords # <<>>
    THEN subTopic \o <<",", " ">> \o translatedKeywords
    ELSE subTopic

NoPrompt == [built |-> FALSE, focus |-> FALSE, keywords |-> <<>>]

\* Lines 82-117: the prompt, of which the model keeps the topic-focus clause:
\* whether it is there, and the keywords it quotes.
PromptWithFocus(combinedKeywords) ==
    [built |-> TRUE, focus |-> TRUE, keywords |-> combinedKeywords]

PromptWithoutFocus == [built |-> TRUE, focus |-> FALSE, keywords |-> <<>>]

Call(kind, status) == [kind |-> kind, status |-> status]

NoOutcome == [raised |-> FALSE, message |-> "", articles |-> <<>>, sources |-> <<>>]

\* FetchCatch that throws again what it caught.
FetchCatch_Rethrow(thrownMessage) ==
    [raised |-> TRUE, message |-> thrownMessage, articles |-> <<>>, sources |-> <<>>]

\* Lines 142-145: the catch of the function, whatever was thrown.
FetchCatch(thrownMessage) ==
    [raised |-> TRUE, message |-> FetchFailedMessage, articles |-> <<>>, sources |-> <<>>]

\* Lines 127-140: the result built from a response of the main call.
FetchResult(reply) ==
    [raised |-> FALSE, message |-> "",
     articles |-> parseArticleResponse(reply.text),
     sources |-> DedupSources(reply.chunks)]

\* Lines 74-90 and 119: the function from its call to its first await.  With a
\* sub-topic it awaits the translation; without, it builds the prompt and
\* awaits the main call.
FetchStart(f) ==
    IF HasSubTopic(f.subTopic)
    THEN [subTopic |-> f.subTopic, pc |-> "translate",
          calls |-> <<Call("translate", "outstanding")>>,
          prompt |-> NoPrompt, outcome |-> NoOutcome]
    ELSE [subTopic |-> f.subTopic, pc |-> "main",
          calls |-> <<Call("main", "outstanding")>>,
          prompt |-> PromptWithoutFocus, outcome |-> NoOutcome]

\* The replies of the service.
TranslationTexts == {<<"en">>, <<" ", "en", ".", "\n">>, <<".">>, <<>>}

TranslateReplies ==
    {[ok |-> FALSE, text |-> <<>>]} \cup {[ok |-> TRUE, text |-> t] : t \in TranslationTexts}

GoodBlock == [miss |-> "none", colon |-> "FW", shape |-> "plain", src |-> "url"]
BlankBlock == [miss |-> "none", colon |-> ":", shape |-> "blankTitle", src |-> "url"]
DupChunks ==
    << [hasWeb |-> TRUE, uri |-> "u1", title |-> "t1"],
       [hasWeb |-> TRUE, uri |-> "u1", title |-> "t2"] >>

MainReplies ==
    { [ok |-> FALSE, text |-> <<>>, chunks |-> <<>>],
      [ok |-> TRUE, text |-> <<>>, chunks |-> <<>>],
      [ok |-> TRUE, text |-> Render(<<BlankBlock>>), chunks |-> DupChunks],
      [ok |-> TRUE, text |-> Render(<<GoodBlock>>), chunks |-> DupChunks] }

----------------------------------------------------------------------------
(* App *)

\* ButtonDisabled of a button that is never disabled.
ButtonNeverDisabled == FALSE

\* Line 68: disabled={isLoading}.  A click is a discrete event: React commits
\* the state its handler set before it dispatches the next one.
ButtonDisabled == isLoading

\* Lines 33-44: handleFetchArticles from its await on.  What the function
\* throws is an Error (line 144), so the catch shows its message.
HandlerResume(outcome) ==
    /\ IF outcome.raised
       THEN /\ error' = outcome.message
            /\ UNCHANGED <<articles, groundingSources>>
       ELSE IF Len(outcome.articles) = 0
            THEN /\ error' = NoArticlesMessage
                 /\ UNCHANGED <<articles, groundingSources>>
            ELSE /\ articles' = outcome.articles
                 /\ groundingSources' = outcome.sources
                 /\ UNCHANGED error
    /\ isLoading' = FALSE
    /\ UNCHANGED <<hasSearched, filters>>

\* Lines 19-22.
handleFilterChange ==
    /\ \E value \in {<<>>, <<"zh">>, <<" ">>} :
          /\ value # filters.subTopic
          /\ filters' = [filters EXCEPT !.subTopic = value]
    /\ UNCHANGED <<articles, groundingSources, isLoading, error, hasSearched, inv>>
    /\ UNCHANGED <<parserVars, dedupVars>>

\* Lines 24-32: a click on the button runs the handler up to its await.
handleFetchArticles ==
    /\ ~ButtonDisabled
    /\ Len(inv) < MaxInvocations
    /\ isLoading' = TRUE
    /\ error' = "null"
    /\ hasSearched' = TRUE
    /\ articles' = <<>>
    /\ groundingSources' = <<>>
    /\ inv' = Append(inv, FetchStart(filters))
    /\ UNCHANGED filters
    /\ UNCHANGED <<parserVars, dedupVars>>

\* The translation call of invocation i settles: lines 84-90, then the prompt
\* and the main call (line 119).  An error out of translateKeywords would reach
\* the catch of line 142.
TranslationSettles ==
    \E i \in 1..Len(inv), reply \in TranslateReplies :
        /\ inv[i].pc = "translate"
        /\ LET r == translateKeywords(reply)
               settled == <<Call("translate", IF reply.ok THEN "ok" ELSE "failed")>>
           IN  IF r.threw
               THEN /\ inv' = [inv EXCEPT ![i].pc = "raised",
                                          ![i].calls = settled,
                                          ![i].outcome = FetchCatch(ServiceErrorMessage)]
                    /\ HandlerResume(FetchCatch(ServiceErrorMessage))
               ELSE /\ inv' = [inv EXCEPT
                                 ![i].pc = "main",
                                 ![i].calls = settled \o <<Call("main", "outstanding")>>,
                                 ![i].prompt =
                                    PromptWithFocus(CombinedKeywords(inv[i].subTopic, r.value))]
                    /\ UNCHANGED <<articles, groundingSources, isLoading, error,
                                   hasSearched, filters>>
        /\ UNCHANGED <<parserVars, dedupVars>>

\* The main call of invocation i settles: lines 127-145, then the handler.
MainSettles ==
    \E i \in 1..Len(inv), reply \in MainReplies :
        /\ inv[i].pc = "main"
        /\ LET n == Len(inv[i].calls)
               outcome == IF reply.ok THEN FetchResult(reply)
                          ELSE FetchCatch(ServiceErrorMessage)
           IN  /\ inv' = [inv EXCEPT
                            ![i].pc = IF outcome.raised THEN "raised" ELSE "returned",
                            ![i].calls[n] = Call("main", IF reply.ok THEN "ok" ELSE "failed"),
                            ![i].outcome = outcome]
               /\ HandlerResume(outcome)
        /\ UNCHANGED <<parserVars, dedupVars>>

Init == AppInit /\ ParserIdle /\ DedupIdle

Next ==
    \/ handleFilterChange
    \/ handleFetchArticles
    \/ TranslationSettles
    \/ MainSettles

Spec == Init /\ [][Next]_vars

----------------------------------------------------------------------------
(* Claims about the grounding sources, checked under DedupSpec *)

\* The uri and title of a chunk as the input gives them, '' when missing.
UriOf(chunk) == IF chunk.hasWeb /\ chunk.uri # Undefined THEN chunk.uri ELSE ""
TitleOf(chunk) == IF chunk.hasWeb /\ chunk.title # Undefined THEN chunk.title ELSE ""

\* The index of the first chunk with uri u.
FirstIndex(u) ==
    CHOOSE j \in 1..Len(groundingChunks) :
        /\ UriOf(groundingChunks[j]) = u
        /\ \A h \in 1..(j - 1) : UriOf(groundingChunks[h]) # u

\* C1: when several chunks share a non-empty uri, the source returned for
\* that uri has the title of the FIRST chunk with that uri.
C1_FirstTitleKept ==
    dedupDone =>
        \A k \in 1..Len(uniqueSources) :
            uniqueSources[k].title =
                TitleOf(groundingChunks[FirstIndex(uniqueSources[k].uri)])

\* C8: the sources returned hold exactly one entry per distinct non-empty uri
\* of the input, none with an empty uri, in the order in which each uri first
\* occurs; a list unique by uri with no empty uri is returned unchanged.
C8_UniqueFirstSeenOrder ==
    dedupDone =>
        LET n == Len(groundingChunks)
            inUris == {UriOf(groundingChunks[j]) : j \in 1..n} \ {""}
            outIdx == 1..Len(uniqueSources)
            unique == /\ \A j \in 1..n : UriOf(groundingChunks[j]) # ""
                      /\ \A j, h \in 1..n :
                            j # h => UriOf(groundingChunks[j]) # UriOf(groundingChunks[h])
        IN  /\ {uniqueSources[k].uri : k \in outIdx} = inUris
            /\ \A k \in outIdx : uniqueSources[k].uri # ""
            /\ \A k, l \in outIdx : k # l => uniqueSources[k].uri # uniqueSources[l].uri
            /\ \A k, l \in outIdx :
                  k < l => FirstIndex(uniqueSources[k].uri) < FirstIndex(uniqueSources[l].uri)
            /\ unique =>
                  uniqueSources = [j \in 1..n |->
                      [uri |-> UriOf(groundingChunks[j]), title |-> TitleOf(groundingChunks[j])]]

\* A uri seen twice with another one and an empty one in between: u2, -, u1, u2.
C8_Witness ==
    /\ dedupDone
    /\ Len(groundingChunks) = 3
    /\ UriOf(groundingChunks[1]) = "u2"
    /\ UriOf(groundingChunks[2]) = "u1"
    /\ UriOf(groundingChunks[3]) = "u2"
    /\ Len(uniqueSources) = 2
    /\ uniqueSources[1].uri = "u2"

----------------------------------------------------------------------------
(* Claims about the parser, checked under ParserSpec *)

\* A block with its three labels whose three bodies hold more than white space.
WellFormedBlock(i) ==
    /\ blocks[i].miss = "none"
    /\ TitleCore(i, blocks[i]) # <<>>
    /\ SummaryCore(i, blocks[i]) # <<>>
    /\ SourceCore(i, blocks[i]) # <<>>

\* A block with its three labels and three non-empty bodies.
LabelledBlock(i) ==
    /\ blocks[i].miss = "none"
    /\ TitleBody(i, blocks[i]) # <<>>
    /\ SummaryBody(i, blocks[i]) # <<>>
    /\ SourceBody(i, blocks[i]) # <<>>

\* s is an absolute http/https URL: a scheme, then URL characters only.
IsUrl(s) ==
    /\ Len(s) >= 2
    /\ s[1] \in Schemes
    /\ \A k \in 2..Len(s) : s[k] \notin UrlStop

ContainsUrl(s) ==
    \E k \in 1..(Len(s) - 1) : s[k] \in Schemes /\ s[k + 1] \notin UrlStop

OccursIn(s, t) ==
    \E a \in 1..(Len(t) + 1) : a + Len(s) - 1 <= Len(t) /\ SubSeq(t, a, a + Len(s) - 1) = s

\* The source expected of a well-formed block.
ExpectedSource(i) ==
    IF blocks[i].src = "wrapped" THEN <<"http://", PathChar(i), "?">>
    ELSE SourceCore(i, blocks[i])

\* The blocks described: i -> emitted as its own article.
EmittedAsItself(i) ==
    \E k \in 1..Len(parsed) :
        /\ parsed[k].title = TitleCore(i, blocks[i])
        /\ parsed[k].summary = SummaryCore(i, blocks[i])

\* C2: when one block lacks one of its three labels, no article carries that
\* block's title, and the well-formed blocks that follow it are emitted as
\* their own articles.
C2_MalformedBlockExcluded ==
    parseDone =>
        \A i \in 1..Len(blocks) :
            ( /\ blocks[i].miss # "none"
              /\ \A j \in 1..Len(blocks) : j # i => WellFormedBlock(j) )
            => /\ \A k \in 1..Len(parsed) : parsed[k].title # TitleCore(i, blocks[i])
               /\ \A j \in (i + 1)..Len(blocks) : EmittedAsItself(j)

\* C3 as stated: N blocks, each with its three labels (either colon) and a
\* non-empty body, give exactly N articles, in order, the i-th with the
\* trimmed title and summary of the i-th block.
C3_NonEmptyBodiesParsed ==
    (parseDone /\ \A i \in 1..Len(blocks) : LabelledBlock(i)) =>
        /\ Len(parsed) = Len(blocks)
        /\ \A i \in 1..Len(blocks) :
              /\ parsed[i].title = TitleCore(i, blocks[i])
              /\ parsed[i].summary = SummaryCore(i, blocks[i])

\* C3 amended: N blocks, each with its three labels (either colon) and
\* bodies that hold more than white space, give exactly N articles, in order,
\* the i-th with the trimmed title and summary of the i-th block.
C3_WellFormedBlocksParsed ==
    (parseDone /\ \A i \in 1..Len(blocks) : WellFormedBlock(i)) =>
        /\ Len(parsed) = Len(blocks)
        /\ \A i \in 1..Len(blocks) :
              /\ parsed[i].title = TitleCore(i, blocks[i])
              /\ parsed[i].summary = SummaryCore(i, blocks[i])

\* Two well-formed blocks, one per colon, the first with interior white space.
C3_Witness ==
    /\ parseDone
    /\ Len(blocks) = 2
    /\ WellFormedBlock(1) /\ WellFormedBlock(2)
    /\ blocks[1].colon = ":" /\ blocks[2].colon = "FW"
    /\ blocks[1].shape = "rich"
    /\ Len(parsed) = 2
    /\ parsed[2].title = <<TitleChar(2)>>

\* C4 as stated: the source of every article emitted is a well-formed
\* absolute http/https URL; a source body without one yields no article.
C4_SourceIsUrl ==
    parseDone => \A k \in 1..Len(parsed) : IsUrl(parsed[k].source)

\* C4 amended: the source of every article emitted is non-empty text of the
\* input: an http/https URL when the source body holds one (the first), and
\* otherwise the trimmed source body, which then holds no URL.
C4_SourceUrlOrTrimmedText ==
    parseDone =>
        /\ \A k \in 1..Len(parsed) :
              /\ parsed[k].source # <<>>
              /\ OccursIn(parsed[k].source, text)
              /\ IsUrl(parsed[k].source) \/ ~ContainsUrl(parsed[k].source)
        /\ (\A i \in 1..Len(blocks) : WellFormedBlock(i)) =>
              /\ Len(parsed) = Len(blocks)
              /\ \A i \in 1..Len(blocks) : parsed[i].source = ExpectedSource(i)

\* One article whose source is a URL cut out of its body, one whose source is
\* the text of a body without URL.
C4_Witness ==
    /\ parseDone
    /\ Len(blocks) = 2
    /\ blocks[1].src = "wrapped" /\ blocks[2].src = "text"
    /\ Len(parsed) = 2
    /\ IsUrl(parsed[1].source)
    /\ ~IsUrl(parsed[2].source)

----------------------------------------------------------------------------
(* Claims about fetchDigitalEconomyArticles and the App, checked under Spec *)

Invocations == 1..Len(inv)

CallsOf(i, kind) == {n \in 1..Len(inv[i].calls) : inv[i].calls[n].kind = kind}

Outstanding(i) == {n \in 1..Len(inv[i].calls) : inv[i].calls[n].status = "outstanding"}

InFlight == {i \in Invocations : inv[i].pc \in {"translate", "main"}}

\* C5: with a non-empty subTopic and a failed translation call the invocation
\* goes on: the main call is issued, the topic-focus clause of its prompt
\* holds the original keywords only, and if the main call succeeds the
\* invocation returns a result.
C5_TranslationFailureTolerated ==
    \A i \in Invocations :
        ( /\ inv[i].subTopic # <<>>
          /\ \E n \in CallsOf(i, "translate") : inv[i].calls[n].status = "failed" )
        => /\ Len(inv[i].calls) = 2
           /\ inv[i].calls[2].kind = "main"
           /\ inv[i].prompt = [built |-> TRUE, focus |-> TRUE, keywords |-> inv[i].subTopic]
           /\ inv[i].calls[2].status = "ok" =>
                 /\ inv[i].pc = "returned"
                 /\ ~inv[i].outcome.raised

\* The translation failed, the main call succeeded and the invocation returned.
C5_Witness ==
    \E i \in Invocations :
        /\ inv[i].subTopic = <<"zh">>
        /\ inv[i].calls = <<Call("translate", "failed"), Call("main", "ok")>>
        /\ inv[i].pc = "returned"
        /\ Len(inv[i].outcome.articles) = 1

\* C6: the main call is issued at most once per invocation; when it fails no
\* further call is issued and the invocation raises the generic error, with
\* no result; no other error leaves the function.
C6_MainFailureRaisesGenericError ==
    \A i \in Invocations :
        /\ Cardinality(CallsOf(i, "main")) <= 1
        /\ \A n \in CallsOf(i, "main") :
              inv[i].calls[n].status = "failed" =>
                  /\ n = Len(inv[i].calls)
                  /\ inv[i].pc = "raised"
        /\ inv[i].pc = "raised" =>
              /\ inv[i].outcome.raised
              /\ inv[i].outcome.message = FetchFailedMessage
              /\ inv[i].outcome.articles = <<>>
              /\ inv[i].outcome.sources = <<>>
        /\ inv[i].pc = "returned" =>
              /\ ~inv[i].outcome.raised
              /\ \E n \in CallsOf(i, "main") : inv[i].calls[n].status = "ok"
        /\ (i = Len(inv) /\ inv[i].pc = "raised") => error = FetchFailedMessage

\* The main call failed after a translation and the App shows the error.
C6_Witness ==
    \E i \in Invocations :
        /\ inv[i].calls = <<Call("translate", "ok"), Call("main", "failed")>>
        /\ inv[i].pc = "raised"
        /\ i = Len(inv)
        /\ error = FetchFailedMessage
        /\ ~isLoading

\* Line 94: the view "no article matches the current conditions".
NoMatchingArticlesView ==
    ~isLoading /\ error = "null" /\ hasSearched /\ Len(articles) = 0

\* C7: when the main call succeeds and zero articles are parsed, the
\* invocation returns an empty article list and the App ends with its error
\* state not set, presenting the 'no matching articles' view.
C7_EmptyResultIsNotAnError ==
    \A i \in Invocations :
        ( /\ i = Len(inv)
          /\ \E n \in CallsOf(i, "main") : inv[i].calls[n].status = "ok"
          /\ inv[i].pc = "returned"
          /\ inv[i].outcome.articles = <<>> )
        => /\ ~inv[i].outcome.raised
           /\ error = "null"
           /\ NoMatchingArticlesView

\* C9: at most one invocation is in flight; while one is, isLoading is true
\* (the button is disabled), and once it has settled isLoading is false.
C9_OneInvocationInFlight ==
    /\ Cardinality(InFlight) <= 1
    /\ isLoading <=> InFlight # {}

\* A second invocation is in flight after the first one settled.
C9_Witness ==
    /\ Len(inv) = 2
    /\ inv[1].pc \in {"returned", "raised"}
    /\ inv[2].pc = "main"
    /\ isLoading

\* C10: the translation call is issued if and only if subTopic is non-empty,
\* the main call only once the translation call has completed, and the two
\* are never outstanding together.
C10_TranslationBeforeMain ==
    \A i \in Invocations :
        /\ CallsOf(i, "translate") # {} <=> inv[i].subTopic # <<>>
        /\ Cardinality(CallsOf(i, "translate")) <= 1
        /\ Cardinality(Outstanding(i)) <= 1
        /\ \A m \in CallsOf(i, "main"), t \in CallsOf(i, "translate") :
              t < m /\ inv[i].calls[t].status # "outstanding"
        /\ (inv[i].subTopic # <<>> /\ CallsOf(i, "main") # {}) =>
              \E t \in CallsOf(i, "translate") : inv[i].calls[t].status \in {"ok", "failed"}

\* One invocation without a sub-topic awaits its main call with no translation
\* call; another, with one, awaits its main call after its translation.
C10_Witness ==
    /\ Len(inv) = 2
    /\ inv[1].subTopic = <<>>
    /\ inv[1].calls = <<Call("main", "ok")>>
    /\ inv[2].subTopic # <<>>
    /\ inv[2].calls = <<Call("translate", "ok"), Call("main", "outstanding")>>

====
